---------------------------- MODULE Spec2Model ----------------------------
(***************************************************************************)
(* Model of src/core/app.py: PersonalFinancialWallet, a command line       *)
(* ledger that keeps its records in sheet 'Main' of database\db.xlsx.      *)
(*                                                                         *)
(* One step of the model is one invocation of the program (start()): the   *)
(* store on disk is the only state that survives between invocations.      *)
(*                                                                         *)
(* Python values are records [k, s, n]: k is the type, s the text of a str *)
(* (a sequence of symbols: one symbol per character for numbers and dates, *)
(* one symbol for a whole word otherwise), n the number.  Numbers are kept *)
(* in tenths so that an amount such as 1.5 is representable; a datetime is *)
(* the reading of the clock, or yyyymmdd for a parsed date.                *)
(***************************************************************************)
EXTENDS Integers, Sequences, FiniteSets

\* Bounds of the model.
\* Number of invocations that take a timestamp (add, modify) in one run.
MaxClock == 2
\* Largest value given as -i/--index.
MaxIndex == 1

-----------------------------------------------------------------------------
\* Python values

None == [k |-> "None", s |-> <<>>, n |-> 0]

NaN == [k |-> "NaN", s |-> <<>>, n |-> 0]

Str(t) == [k |-> "str", s |-> t, n |-> 0]

PyInt(i) == [k |-> "int", s |-> <<>>, n |-> i]

\* a float64/int64 of pandas, in tenths
Num(x) == [k |-> "number", s |-> <<>>, n |-> x]

\* a datetime / Timestamp
Dt(t) == [k |-> "datetime", s |-> <<>>, n |-> t]

\* a list: the function over 1..n as an evaluated sequence
List(f) == SubSeq(f, 1, Len(f))

\* bool(value) as used by `if getattr(args, attr)`
Truthy(v) == v.k # "None" /\ ~(v.k = "str" /\ v.s = <<>>)

-----------------------------------------------------------------------------
\* Class attributes

_columns == << <<"Category">>, <<"Amount">>, <<"Date">>, <<"Description">>,
               <<"Created at">>, <<"Updated at">> >>

_categories == << <<"Rashod">>, <<"Dohod">> >>

NCols == Len(_columns)

\* col_indexes = {i[1]: i[0] for i in enumerate(self._columns, 1)}
col_indexes(name) == CHOOSE i \in 1..NCols : _columns[i] = name

-----------------------------------------------------------------------------
\* Text to number, text to date (what pandas does to the cells it reads)

Digits == <<"0", "1", "2", "3", "4", "5", "6", "7", "8", "9">>

IsDigit(c) == \E i \in 1..Len(Digits) : Digits[i] = c

DigitValue(c) == (CHOOSE i \in 1..Len(Digits) : Digits[i] = c) - 1

AllDigits(t) == \A i \in 1..Len(t) : IsDigit(t[i])

RECURSIVE DigitsValue(_)
DigitsValue(t) ==
    IF t = <<>> THEN 0
    ELSE DigitsValue(SubSeq(t, 1, Len(t) - 1)) * 10 + DigitValue(t[Len(t)])

\* an unsigned decimal literal: digits, or digits "." digit
IsUnsigned(t) ==
    \/ Len(t) >= 1 /\ AllDigits(t)
    \/ /\ Len(t) >= 3
       /\ t[Len(t) - 1] = "."
       /\ AllDigits(SubSeq(t, 1, Len(t) - 2))
       /\ IsDigit(t[Len(t)])

UnsignedValue(t) ==
    IF AllDigits(t) THEN DigitsValue(t) * 10
    ELSE DigitsValue(SubSeq(t, 1, Len(t) - 2)) * 10 + DigitValue(t[Len(t)])

\* lib.maybe_convert_numeric accepts the text
IsNumeric(t) ==
    \/ IsUnsigned(t)
    \/ Len(t) >= 2 /\ t[1] = "-" /\ IsUnsigned(Tail(t))

\* the number the text is converted to, in tenths
ParseNumber(t) ==
    IF t[1] = "-" THEN 0 - UnsignedValue(Tail(t)) ELSE UnsignedValue(t)

\* the text has the form %Y-%m-%d
IsDate(t) ==
    /\ Len(t) = 10
    /\ t[5] = "-" /\ t[8] = "-"
    /\ AllDigits(SubSeq(t, 1, 4)) /\ AllDigits(SubSeq(t, 6, 7)) /\ AllDigits(SubSeq(t, 9, 10))
    /\ DigitsValue(SubSeq(t, 6, 7)) \in 1..12
    /\ DigitsValue(SubSeq(t, 9, 10)) \in 1..31

ParseDate(t) ==
    DigitsValue(SubSeq(t, 1, 4)) * 10000 + DigitsValue(SubSeq(t, 6, 7)) * 100
        + DigitsValue(SubSeq(t, 9, 10))

\* '%d' % x : the integer part, truncated towards zero
FormatD(x) == IF x >= 0 THEN x \div 10 ELSE 0 - ((0 - x) \div 10)

-----------------------------------------------------------------------------
\* Dictionaries (insertion ordered): sequences of [key, value]

DictHas(d, key) == \E i \in 1..Len(d) : d[i].key = key

\* d[key] = value
DictSet(d, key, value) ==
    IF DictHas(d, key)
    THEN List([i \in 1..Len(d) |-> IF d[i].key = key THEN [key |-> key, value |-> value] ELSE d[i]])
    ELSE Append(d, [key |-> key, value |-> value])

-----------------------------------------------------------------------------
\* The workbook: sheet 'Main' as a sequence of rows of NCols cells (openpyxl)

EmptyRow == List([c \in 1..NCols |-> None])

\* sheet.append(self._columns) on a new workbook
NewSheet == << List([c \in 1..NCols |-> Str(_columns[c])]) >>

RowHasValue(row) == \E c \in 1..NCols : row[c] # None

\* Worksheet.max_row: the last row that holds a cell, 1 for an empty sheet
max_row(sheet) ==
    IF \E r \in 1..Len(sheet) : RowHasValue(sheet[r])
    THEN CHOOSE r \in 1..Len(sheet) :
            /\ RowHasValue(sheet[r])
            /\ \A q \in (r + 1)..Len(sheet) : ~RowHasValue(sheet[q])
    ELSE 1

\* sheet.cell(row=r, column=c).value = v
SetCell(sheet, r, c, v) ==
    LET grown == List([q \in 1..(IF r > Len(sheet) THEN r ELSE Len(sheet)) |->
                          IF q <= Len(sheet) THEN sheet[q] ELSE EmptyRow])
    IN  [grown EXCEPT ![r][c] = v]

RECURSIVE SetCells(_, _, _)
SetCells(sheet, r, values) ==
    IF values = <<>> THEN sheet
    ELSE SetCells(SetCell(sheet, r, col_indexes(values[1].key), values[1].value),
                  r, Tail(values))

\* TargetRow with the append landing on the last row instead of after it
TargetRowOnLast(sheet, index) ==
    IF index = None THEN max_row(sheet) ELSE index.n + 2

\* TargetRow without the header row counted in
TargetRowNoHeader(sheet, index) ==
    IF index = None THEN max_row(sheet) + 1 ELSE index.n + 1

\* the row _save_to_excel writes to
TargetRow(sheet, index) ==
    IF index = None THEN max_row(sheet) + 1 ELSE index.n + 2

\* _save_to_excel: the workbook saved, or raised = TRUE and the file untouched
\* (sheet.cell raises ValueError for a row below 1, before workbook.save)
_save_to_excel(sheet, values, index) ==
    LET row == TargetRow(sheet, index)
    IN  IF row < 1 /\ values # <<>>
        THEN [raised |-> TRUE, sheet |-> sheet]
        ELSE [raised |-> FALSE, sheet |-> SetCells(sheet, row, values)]

-----------------------------------------------------------------------------
\* The data frame pandas builds from the sheet: the header row names the
\* columns, every later row up to the last row holding a value is a record.

\* type inference of one column of cells (TextParser): empty cells become
\* NaN, and a column whose cells are all numeric text becomes a number column
InferColumn(cells) ==
    IF \A i \in 1..Len(cells) :
          cells[i] = None \/ (cells[i].k = "str" /\ IsNumeric(cells[i].s))
    THEN List([i \in 1..Len(cells) |->
                  IF cells[i] = None THEN NaN ELSE Num(ParseNumber(cells[i].s))])
    ELSE List([i \in 1..Len(cells) |-> IF cells[i] = None THEN NaN ELSE cells[i]])

\* parse_dates=['Date'], date_format='%Y-%m-%d': the column becomes a datetime
\* column when every text in it has the format, and is left as read otherwise
ParseDateColumn(cells) ==
    IF \A i \in 1..Len(cells) :
          cells[i] = NaN \/ (cells[i].k = "str" /\ IsDate(cells[i].s))
    THEN List([i \in 1..Len(cells) |->
                  IF cells[i] = NaN THEN NaN ELSE Dt(ParseDate(cells[i].s))])
    ELSE cells

\* pd.read_excel(self.db_path, date_format='%Y-%m-%d', parse_dates=['Date']):
\* raises ValueError when no column is named Date
_load_dataframe_from_excel(sheet) ==
    LET header == sheet[1]
        n      == max_row(sheet) - 1
        raw(c) == List([r \in 1..n |-> sheet[r + 1][c]])
        col    == List([c \in 1..NCols |->
                          IF header[c] = Str(<<"Date">>)
                          THEN ParseDateColumn(InferColumn(raw(c)))
                          ELSE InferColumn(raw(c))])
    IN  IF \A c \in 1..NCols : header[c] # Str(<<"Date">>)
        THEN [raised |-> TRUE, columns |-> <<>>, rows |-> <<>>]
        ELSE [raised |-> FALSE,
              columns |-> header,
              rows |-> List([r \in 1..n |-> List([c \in 1..NCols |-> col[c][r]])])]

\* DataFrame.empty
empty(dataframe) == Len(dataframe.rows) = 0

HasColumn(dataframe, name) ==
    \E c \in 1..Len(dataframe.columns) : dataframe.columns[c] = Str(name)

ColumnOf(dataframe, name) ==
    CHOOSE c \in 1..Len(dataframe.columns) : dataframe.columns[c] = Str(name)

\* one term `column == "text"` of a query, on one cell: text against text,
\* a datetime against the date the text spells, never equal otherwise
CellEquals(cell, text) ==
    CASE cell.k = "str" -> cell.s = text
      [] cell.k = "datetime" -> IsDate(text) /\ ParseDate(text) = cell.n
      [] OTHER -> FALSE

RowMatches(dataframe, row, conditions) ==
    \A i \in 1..Len(conditions) :
        CellEquals(row[ColumnOf(dataframe, conditions[i].key)], conditions[i].value.s)

RECURSIVE QueryRows(_, _, _)
QueryRows(dataframe, rows, conditions) ==
    IF rows = <<>> THEN <<>>
    ELSE IF RowMatches(dataframe, rows[1], conditions)
         THEN <<rows[1]>> \o QueryRows(dataframe, Tail(rows), conditions)
         ELSE QueryRows(dataframe, Tail(rows), conditions)

\* _filter_rows: dataframe.query(' & '.join(...), inplace=inplace).
\* query raises ValueError for an empty expression and UndefinedVariableError
\* for a name that is no column.  result is the frame returned (inplace =
\* FALSE), dataframe the caller's frame after the call.
_filter_rows(dataframe, conditions, inplace) ==
    LET kept == [dataframe EXCEPT !.rows = QueryRows(dataframe, dataframe.rows, conditions)]
    IN  IF \/ conditions = <<>>
           \/ \E i \in 1..Len(conditions) : ~HasColumn(dataframe, conditions[i].key)
        THEN [raised |-> TRUE, result |-> dataframe, dataframe |-> dataframe]
        ELSE IF inplace
             THEN [raised |-> FALSE, result |-> dataframe, dataframe |-> kept]
             ELSE [raised |-> FALSE, result |-> kept, dataframe |-> dataframe]

RECURSIVE SumNumbers(_, _)
SumNumbers(rows, c) ==
    IF rows = <<>> THEN 0
    ELSE (IF rows[1][c].k = "number" THEN rows[1][c].n ELSE 0) + SumNumbers(Tail(rows), c)

\* rows.Amount.sum() if not rows.empty else 0.  On a column of text the sum is
\* text, or fails: either way sub() or '%d' raises TypeError.
AmountSum(frame) ==
    IF empty(frame) THEN [raised |-> FALSE, sum |-> 0]
    ELSE IF ~HasColumn(frame, <<"Amount">>) THEN [raised |-> TRUE, sum |-> 0]
    ELSE LET c == ColumnOf(frame, <<"Amount">>)
         IN  IF \E r \in 1..Len(frame.rows) : frame.rows[r][c].k \notin {"number", "NaN"}
             THEN [raised |-> TRUE, sum |-> 0]
             ELSE [raised |-> FALSE, sum |-> SumNumbers(frame.rows, c)]

\* count_balance with the totals added instead of subtracted
count_balance_added(dataframe) ==
    IF empty(dataframe) THEN [exit |-> 2, ret |-> <<>>]
    ELSE
    LET income_rows  == _filter_rows(dataframe, <<[key |-> <<"Category">>, value |-> Str(_categories[2])]>>, FALSE)
        outcome_rows == _filter_rows(dataframe, <<[key |-> <<"Category">>, value |-> Str(_categories[1])]>>, FALSE)
        income       == AmountSum(income_rows.result)
        outcome      == AmountSum(outcome_rows.result)
    IN  IF income_rows.raised \/ outcome_rows.raised \/ income.raised \/ outcome.raised
        THEN [exit |-> 1, ret |-> <<>>]
        ELSE [exit |-> 0, ret |-> <<income.sum + outcome.sum, income.sum, outcome.sum>>]

\* count_balance without the check for an empty frame
count_balance_unchecked(dataframe) ==
    LET income_rows  == _filter_rows(dataframe, <<[key |-> <<"Category">>, value |-> Str(_categories[2])]>>, FALSE)
        outcome_rows == _filter_rows(dataframe, <<[key |-> <<"Category">>, value |-> Str(_categories[1])]>>, FALSE)
        income       == AmountSum(income_rows.result)
        outcome      == AmountSum(outcome_rows.result)
    IN  IF income_rows.raised \/ outcome_rows.raised \/ income.raised \/ outcome.raised
        THEN [exit |-> 1, ret |-> <<>>]
        ELSE [exit |-> 0, ret |-> <<income.sum - outcome.sum, income.sum, outcome.sum>>]

\* count_balance: exit = 2 for SystemExit(2), 1 for any other exception,
\* 0 with ret = (balance, income, outcome) otherwise
count_balance(dataframe) ==
    IF empty(dataframe) THEN [exit |-> 2, ret |-> <<>>]
    ELSE
    LET income_rows  == _filter_rows(dataframe, <<[key |-> <<"Category">>, value |-> Str(_categories[2])]>>, FALSE)
        outcome_rows == _filter_rows(dataframe, <<[key |-> <<"Category">>, value |-> Str(_categories[1])]>>, FALSE)
        income       == AmountSum(income_rows.result)
        outcome      == AmountSum(outcome_rows.result)
    IN  IF income_rows.raised \/ outcome_rows.raised \/ income.raised \/ outcome.raised
        THEN [exit |-> 1, ret |-> <<>>]
        ELSE [exit |-> 0, ret |-> <<income.sum - outcome.sum, income.sum, outcome.sum>>]

\* search_record: filters the caller's frame in place, returns its row count
search_record(dataframe, conditions) ==
    LET f == _filter_rows(dataframe, conditions, TRUE)
    IN  [raised |-> f.raised, dataframe |-> f.dataframe, rows_count |-> Len(f.dataframe.rows)]

-----------------------------------------------------------------------------
\* Command line arguments

Attrs == <<"amount", "category", "date", "description">>

\* attr.capitalize()
Capitalize(attr) ==
    CASE attr = "amount" -> <<"Amount">>
      [] attr = "category" -> <<"Category">>
      [] attr = "date" -> <<"Date">>
      [] attr = "description" -> <<"Description">>

RECURSIVE ArgsToDict(_, _)
ArgsToDict(args, i) ==
    IF i > Len(Attrs) THEN <<>>
    ELSE (IF Truthy(args[Attrs[i]])
          THEN <<[key |-> Capitalize(Attrs[i]), value |-> args[Attrs[i]]]>>
          ELSE <<>>) \o ArgsToDict(args, i + 1)

\* cli_args_to_dict: the options that were given a non-empty value
cli_args_to_dict(args) == ArgsToDict(args, 1)

-----------------------------------------------------------------------------
\* Values given on the command line

Amount100 == <<"1", "0", "0">>

Amount40 == <<"4", "0">>

AmountDecimal == <<"1", ".", "5">>

AmountNegative == <<"-", "5">>

ADate == <<"2", "0", "2", "4", "-", "0", "1", "-", "0", "5">>

Salary == <<"salary">>

Namespace(amount, category, date, description) ==
    [amount |-> amount, category |-> category, date |-> date, description |-> description]

\* The option values of the invocations.  parse_args() leaves None for an
\* option that is not given; -d '' gives the empty text.
AddArgs ==
    { Namespace(Str(Amount100), Str(_categories[2]), None, Str(Salary)),
      Namespace(Str(Amount40), Str(_categories[1]), None, None),
      Namespace(Str(AmountDecimal), Str(_categories[2]), Str(ADate), None),
      Namespace(None, Str(_categories[1]), None, None),
      Namespace(None, None, None, Str(<<>>)) }

SearchArgs ==
    { Namespace(Str(Amount100), Str(_categories[2]), None, Str(Salary)),
      Namespace(None, Str(_categories[1]), None, None),
      Namespace(None, None, Str(ADate), None),
      Namespace(None, None, None, Str(<<>>)) }

ModifyArgs ==
    { Namespace(Str(AmountNegative), None, None, None),
      Namespace(Str(AmountDecimal), Str(_categories[2]), Str(ADate), None) }

\* -i/--index: not given, or an integer (type=int)
Indexes == {None} \cup {PyInt(i) : i \in (0 - 2)..MaxIndex}

-----------------------------------------------------------------------------
\* State

VARIABLES
    file,      \* database\db.xlsx: [exists, sheet]
    clock,     \* datetime.now() of the latest invocation that read it
    last,      \* the latest invocation: its arguments, exit code and output
    added,     \* history: the option values of the add invocations so far
    modified   \* history: some modify invocation has been run

vars == <<file, clock, last, added, modified>>

\* _create_db_if_not_exists: a workbook with the header row, unless the file is there
_create_db_if_not_exists(f) ==
    IF f.exists THEN f ELSE [exists |-> TRUE, sheet |-> NewSheet]

NoFile == [exists |-> FALSE, sheet |-> <<>>]

NoArgs == Namespace(None, None, None, None)

\* what an invocation leaves behind; exit is 0, 2 (SystemExit(2)) or 1 (a
\* traceback); the other fields are what balance and search printed
Output(cmd, args, idx, exit) ==
    [cmd |-> cmd, args |-> args, idx |-> idx, exit |-> exit,
     ret |-> <<>>,          \* count_balance's tuple, in tenths
     figures |-> <<>>,      \* the three numbers _balance_table shows
     warning |-> FALSE,     \* an overspend warning line was printed
     count |-> 0,           \* the count search printed
     shown |-> FALSE,       \* search printed the frame
     table |-> <<>>]        \* the rows of the frame search printed

Init ==
    /\ file = _create_db_if_not_exists(NoFile)
    /\ clock = 0
    /\ last = Output("none", NoArgs, None, 0)
    /\ added = <<>>
    /\ modified = FALSE

\* _balance_table % (balance, income, outcome)
BalanceFigures(ret) == List([i \in 1..Len(ret) |-> FormatD(ret[i])])

\* start() with action 'balance'
Balance ==
    LET f         == _create_db_if_not_exists(file)
        dataframe == _load_dataframe_from_excel(f.sheet)
        b         == count_balance(dataframe)
    IN  /\ file' = f
        /\ last' = IF dataframe.raised THEN Output("balance", NoArgs, None, 1)
                   ELSE [Output("balance", NoArgs, None, b.exit) EXCEPT
                            !.ret = b.ret, !.figures = BalanceFigures(b.ret)]
        /\ UNCHANGED <<clock, added, modified>>

\* start() with action 'add': add_record stamps 'Created at' and appends
Add(args) ==
    LET f          == _create_db_if_not_exists(file)
        now        == clock + 1
        col_values == DictSet(cli_args_to_dict(args), <<"Created at">>, Dt(now))
        saved      == _save_to_excel(f.sheet, col_values, None)
    IN  /\ clock < MaxClock
        /\ clock' = now
        /\ file' = [f EXCEPT !.sheet = saved.sheet]
        /\ last' = Output("add", args, None, IF saved.raised THEN 1 ELSE 0)
        /\ added' = IF saved.raised THEN added ELSE Append(added, args)
        /\ UNCHANGED modified

\* start() with action 'search'
Search(args) ==
    LET f          == _create_db_if_not_exists(file)
        dataframe  == _load_dataframe_from_excel(f.sheet)
        found      == search_record(dataframe, cli_args_to_dict(args))
    IN  /\ file' = f
        /\ last' = IF dataframe.raised \/ found.raised THEN Output("search", args, None, 1)
                   ELSE [Output("search", args, None, 0) EXCEPT
                            !.count = found.rows_count,
                            !.shown = (found.rows_count > 0),
                            !.table = IF found.rows_count > 0 THEN found.dataframe.rows ELSE <<>>]
        /\ UNCHANGED <<clock, added, modified>>

\* start() with action 'modify': modify_record stamps 'Updated at' and writes
\* at args.idx
Modify(args, idx) ==
    LET f             == _create_db_if_not_exists(file)
        now           == clock + 1
        update_values == DictSet(cli_args_to_dict(args), <<"Updated at">>, Dt(now))
        saved         == _save_to_excel(f.sheet, update_values, idx)
    IN  /\ clock < MaxClock
        /\ clock' = now
        /\ file' = [f EXCEPT !.sheet = saved.sheet]
        /\ last' = Output("modify", args, idx, IF saved.raised THEN 1 ELSE 0)
        /\ modified' = TRUE
        /\ UNCHANGED added

Next ==
    \/ Balance
    \/ \E args \in AddArgs : Add(args)
    \/ \E args \in SearchArgs : Search(args)
    \/ \E args \in ModifyArgs, idx \in Indexes : Modify(args, idx)

Spec == Init /\ [][Next]_vars

-----------------------------------------------------------------------------
\* Vocabulary of the properties

\* row 1 as the Schema prescribes it
SchemaHeader == NewSheet[1]

\* the sheet is a Table: its row 1 holds the Schema's headers, in order
IsTable(sheet) == sheet[1] = SchemaHeader

\* the records of a sheet are its rows 2..N
NumRecords(sheet) == Len(sheet) - 1

\* the table a balance or search invocation loads from the store it leaves
Table == _load_dataframe_from_excel(file.sheet)

Income == _categories[2]

Expense == _categories[1]

\* the option was given with a non-empty value
Given(args, attr) == args[attr] # None /\ args[attr] # Str(<<>>)

\* the option a column takes its value from, "" for the two timestamps
OptionOf(c) ==
    IF \E i \in 1..Len(Attrs) : Capitalize(Attrs[i]) = _columns[c]
    THEN Attrs[CHOOSE i \in 1..Len(Attrs) : Capitalize(Attrs[i]) = _columns[c]]
    ELSE ""

\* the loaded cell holds the value the text spells
Denotes(cell, text) ==
    \/ cell = Str(text)
    \/ cell.k = "number" /\ IsNumeric(text) /\ ParseNumber(text) = cell.n
    \/ cell.k = "datetime" /\ IsDate(text) /\ ParseDate(text) = cell.n

\* the Amount of a record of a table, 0 when it has none
AmountOf(row) == IF row[2].k = "number" THEN row[2].n ELSE 0

RowsOfCategory(T, category) == {r \in 1..Len(T.rows) : T.rows[r][1] = Str(category)}

RECURSIVE TotalAmount(_, _)
TotalAmount(T, S) ==
    IF S = {} THEN 0
    ELSE LET r == CHOOSE x \in S : TRUE
         IN  AmountOf(T.rows[r]) + TotalAmount(T, S \ {r})

\* the record satisfies every condition the options of a search spell
Satisfies(row, args) ==
    \A c \in 1..NCols :
        (OptionOf(c) # "" /\ Given(args, OptionOf(c))) => Denotes(row[c], args[OptionOf(c)].s)

NoOptionGiven(args) == \A i \in 1..Len(Attrs) : ~Given(args, Attrs[i])

RECURSIVE AddedTotal(_, _)
\* the sum of the amounts of the first i add invocations given the category
AddedTotal(category, i) ==
    IF i = 0 THEN 0
    ELSE (IF added[i].category = Str(category) THEN ParseNumber(added[i].amount.s) ELSE 0)
         + AddedTotal(category, i - 1)

-----------------------------------------------------------------------------
\* Properties

\* C1: on every non-empty table count_balance returns (balance, income,
\* expense) with income the sum of Amount over the income rows, expense the
\* sum over the expense rows and balance their difference; both totals are
\* >= 0 when no Amount of the table is negative.
C1_BalanceTotals ==
    LET T   == Table
        inc == TotalAmount(T, RowsOfCategory(T, Income))
        exp == TotalAmount(T, RowsOfCategory(T, Expense))
    IN  (last.cmd = "balance" /\ IsTable(file.sheet) /\ Len(T.rows) > 0) =>
            /\ last.exit = 0
            /\ last.ret = <<inc - exp, inc, exp>>
            /\ (\A r \in 1..Len(T.rows) : AmountOf(T.rows[r]) >= 0)
                   => (last.ret[2] >= 0 /\ last.ret[3] >= 0)

C1_Witness ==
    /\ last.cmd = "balance" /\ IsTable(file.sheet) /\ last.exit = 0
    /\ last.ret[2] > 0 /\ last.ret[3] > 0

\* C2: balance on a table with zero rows exits with code 2 and shows no
\* figures; on a table with rows of which none is categorized income or
\* expense it succeeds with (0, 0, 0).
C2_BalanceOnEmptyTable ==
    LET T == Table
    IN  (last.cmd = "balance" /\ IsTable(file.sheet)) =>
            /\ Len(T.rows) = 0 =>
                  (last.exit = 2 /\ last.ret = <<>> /\ last.figures = <<>>)
            /\ (/\ Len(T.rows) > 0
                /\ RowsOfCategory(T, Income) = {}
                /\ RowsOfCategory(T, Expense) = {}) =>
                  (last.exit = 0 /\ last.ret = <<0, 0, 0>>)

C2_Witness ==
    /\ last.cmd = "balance" /\ IsTable(file.sheet) /\ last.exit = 0
    /\ Len(Table.rows) > 0
    /\ RowsOfCategory(Table, Income) = {} /\ RowsOfCategory(Table, Expense) = {}

\* C3: from an empty store, after add invocations only, each given a
\* category and an amount, balance shows as income the sum of the amounts
\* added as income, as expense the sum of those added as expense, and as
\* balance their difference.
C3_BalanceAfterAdds ==
    (/\ last.cmd = "balance" /\ ~modified /\ Len(added) > 0
     /\ \A i \in 1..Len(added) : Given(added[i], "category") /\ Given(added[i], "amount")) =>
        /\ last.exit = 0
        /\ Len(last.figures) = 3
        /\ last.figures[2] * 10 = AddedTotal(Income, Len(added))
        /\ last.figures[3] * 10 = AddedTotal(Expense, Len(added))
        /\ last.figures[1] * 10 = AddedTotal(Income, Len(added)) - AddedTotal(Expense, Len(added))

C5_ModifyChangesOneRecord ==
    [][ (/\ last'.cmd = "modify" /\ last'.idx # None
         /\ last'.idx.n >= 0 /\ last'.idx.n < NumRecords(file.sheet)) =>
            LET row == last'.idx.n + 2
            IN  /\ last'.exit = 0
                /\ Len(file'.sheet) = Len(file.sheet)
                /\ \A r \in 1..Len(file.sheet) : r # row => file'.sheet[r] = file.sheet[r]
                /\ \A c \in 1..NCols :
                      file'.sheet[row][c] =
                          IF _columns[c] = <<"Updated at">> THEN Dt(clock')
                          ELSE IF OptionOf(c) # "" /\ Given(last'.args, OptionOf(c))
                               THEN last'.args[OptionOf(c)]
                               ELSE file.sheet[row][c] ]_vars

C5_Witness ==
    /\ last.cmd = "modify" /\ last.exit = 0 /\ last.idx # None
    /\ last.idx.n >= 0 /\ last.idx.n + 2 <= Len(file.sheet)
    /\ file.sheet[last.idx.n + 2][5] # None
    /\ file.sheet[last.idx.n + 2][1] # None
    /\ ~Given(last.args, "category")

\* C6: search with conditions shows as count the number of records that
\* satisfy all of them, keeps exactly those records in their order, and
\* prints them only when the count is above zero.  (Search without
\* conditions is C7.)
C6_SearchReportsMatches ==
    LET T == Table
    IN  (last.cmd = "search" /\ IsTable(file.sheet) /\ ~NoOptionGiven(last.args)) =>
            /\ last.exit = 0
            /\ last.count = Cardinality({r \in 1..Len(T.rows) : Satisfies(T.rows[r], last.args)})
            /\ last.shown = (last.count > 0)
            /\ last.shown => last.table = SelectSeq(T.rows, LAMBDA row : Satisfies(row, last.args))

\* C7: with no conditions the filter keeps the whole table: search without
\* options completes and shows every record.
C7_SearchWithoutConditions ==
    LET T == Table
    IN  (last.cmd = "search" /\ IsTable(file.sheet) /\ NoOptionGiven(last.args)) =>
            /\ last.exit = 0
            /\ last.count = Len(T.rows)
            /\ last.count > 0 => (last.shown /\ last.table = T.rows)

\* C8: balance on a non-empty table prints the three figures, and a warning
\* line exactly when the expense total exceeds the income total.
C8_OverspendWarning ==
    (last.cmd = "balance" /\ last.exit = 0) =>
        /\ Len(last.figures) = 3
        /\ last.warning = (last.ret[3] > last.ret[2])

\* C9: whatever the invocations and their arguments, row 1 of the sheet
\* holds the six Schema headers, in order.
C9_HeaderRowKept == IsTable(file.sheet)

\* C10: balance and search leave the store as it is, add adds exactly one
\* record, and modify never changes the number of records.
C10_OnlyAddAddsRecords ==
    [][ /\ last'.cmd \in {"balance", "search"} => file' = file
        /\ (last'.cmd = "add" /\ last'.exit = 0) =>
               NumRecords(file'.sheet) = NumRecords(file.sheet) + 1
        /\ last'.cmd = "modify" =>
               NumRecords(file'.sheet) = NumRecords(file.sheet) ]_vars

=============================================================================
